---- MODULE Spec2Model ----
(***************************************************************************)
(* Copy-data job (lib/vdsm/storage/sdm/api/copy_data.py) and the disk      *)
(* lease it takes for an external destination (lib/vdsm/storage/           *)
(* disklease.py), as a state machine.                                      *)
(*                                                                         *)
(* Each job is one worker thread walking through Job._run; abort() runs on *)
(* another thread and interleaves with it.  The cluster-lock primitive     *)
(* (sanlock) is the shared state `sanlock`: the owner of the one disk      *)
(* lease and the bytes of its value buffer.                                *)
(***************************************************************************)
EXTENDS Integers, Sequences, FiniteSets, TLC

\* ------------------------------------------------------------------ bounds
NumJobs == 2        \* jobs that may be constructed, one after the other
MaxCalls == 2
MaxDelta == 2       \* largest delta passed to update_generation

Jobs == 1..NumJobs
Clients == {"a", "b"}   \* DiskLease instances driven directly (SpecLease)
Deltas == 1..MaxDelta

None == "None"

\* ------------------------------------------------------- host lease status
MaxElapsed == 150   \* seconds a lease record is followed without a renewal

HOST_STATUS_UNAVAILABLE == "unavailable"
HOST_STATUS_UNKNOWN == "unknown"
HOST_STATUS_FREE == "free"
HOST_STATUS_LIVE == "live"
HOST_STATUS_FAIL == "fail"
HOST_STATUS_DEAD == "dead"

\* Seconds without renewal after which a host is no longer live, and after
\* which it is dead
FailSeconds == 80
DeadSeconds == 140

HostStatusDeadAtLimit(record, failed, elapsed) ==
    IF failed THEN HOST_STATUS_UNAVAILABLE
    ELSE IF ~record THEN HOST_STATUS_FREE
    ELSE IF elapsed < FailSeconds THEN HOST_STATUS_LIVE
    ELSE IF elapsed < DeadSeconds THEN HOST_STATUS_FAIL
    ELSE HOST_STATUS_DEAD

\* The classification of a host's lease: the primitive's call failed, there is
\* no lease record, or the time since the last renewal
HostStatus(record, failed, elapsed) ==
    IF failed THEN HOST_STATUS_UNAVAILABLE
    ELSE IF ~record THEN HOST_STATUS_FREE
    ELSE IF elapsed < FailSeconds THEN HOST_STATUS_LIVE
    ELSE IF elapsed <= DeadSeconds THEN HOST_STATUS_FAIL
    ELSE HOST_STATUS_DEAD
NoOwner == {}       \* sanlock: nobody owns the lease

\* ------------------------------------------------------ python values, json
\* The value of DiskLease._generation['gen']: the str '0' after __init__, an
\* int after update_generation.
StrGen(n) == [t |-> "str", v |-> n]
IntGen(n) == [t |-> "int", v |-> n]

Digit(d) ==
    CASE d = 0 -> "0" [] d = 1 -> "1" [] d = 2 -> "2" [] d = 3 -> "3"
      [] d = 4 -> "4" [] d = 5 -> "5" [] d = 6 -> "6" [] d = 7 -> "7"
      [] d = 8 -> "8" [] d = 9 -> "9"

RECURSIVE PyStr(_)
PyStr(n) == IF n < 10 THEN Digit(n) ELSE PyStr(n \div 10) \o Digit(n % 10)

\* int(x) for x a str of digits or an int
PyInt(g) == g.v

\* json.dumps({'gen': g}): a str is quoted, an int is not
JsonDumps(g) ==
    IF g.t = "str" THEN "{\"gen\": \"" \o PyStr(g.v) \o "\"}"
    ELSE "{\"gen\": " \o PyStr(g.v) \o "}"

DigitVal(c) ==
    CASE c = "0" -> 0 [] c = "1" -> 1 [] c = "2" -> 2 [] c = "3" -> 3
      [] c = "4" -> 4 [] c = "5" -> 5 [] c = "6" -> 6 [] c = "7" -> 7
      [] c = "8" -> 8 [] c = "9" -> 9

RECURSIVE ParseDigits(_)
ParseDigits(s) ==
    IF Len(s) = 0 THEN 0
    ELSE 10 * ParseDigits(SubSeq(s, 1, Len(s) - 1)) + DigitVal(SubSeq(s, Len(s), Len(s)))

\* json.loads(data)['gen'] of a buffer written by JsonDumps
JsonLoads(data) ==
    LET body == SubSeq(data, 9, Len(data) - 1)
    IN IF SubSeq(body, 1, 1) = "\""
       THEN StrGen(ParseDigits(SubSeq(body, 2, Len(body) - 1)))
       ELSE IntGen(ParseDigits(body))

\* The generation a value buffer holds; a buffer never written holds none,
\* which counts as the initial generation 0.
LvbGeneration(data) == IF data = "" THEN 0 ELSE PyInt(JsonLoads(data))

\* --------------------------------------------------------------- DiskLease
\* DiskLease.__init__
DiskLeaseInit == [generation |-> StrGen(0), sanlock_fd |-> None]

\* Outcomes of the primitive's calls, chosen by the environment.
PrimOutcomes == [register : BOOLEAN, acquire : BOOLEAN, set_lvb : BOOLEAN]

\* `raise se.AcquireLockFailure(self._sdUUID, ...)` and
\* `raise se.ReleaseLockFailure(self._sdUUID, e)`: DiskLease has _sd_id and no
\* _sdUUID, so building the exception raises AttributeError instead.
RaisedFor(intended) == "AttributeError"

\* sanlock.set_lvb by `who`: the primitive accepts it only from the owner.
\* failed names the call of the primitive that failed, None when none did;
\* held tells whether the caller owned the lease when it called.
SetLvb(sl, who, data, ok) ==
    IF ok /\ sl.owner = {who}
    THEN [sanlock |-> [sl EXCEPT !.lvb = data], exc |-> None, failed |-> None,
          held |-> TRUE]
    ELSE [sanlock |-> sl, exc |-> RaisedFor("ReleaseLockFailure"),
          failed |-> "set_lvb", held |-> sl.owner = {who}]

DiskLeaseAcquireLvbFirst(dl, who, sl, prim) ==
    IF ~prim.register
    THEN [dl |-> dl, sanlock |-> sl, exc |-> RaisedFor("AcquireLockFailure"),
          prims |-> <<"register">>, failed |-> "register", lvb_calls |-> << >>]
    ELSE LET dl1 == [dl EXCEPT !.sanlock_fd = "fd"]
             w == SetLvb(sl, who, JsonDumps(dl1.generation), prim.set_lvb)
         IN IF w.exc # None
            THEN [dl |-> dl1, sanlock |-> w.sanlock, exc |-> w.exc,
                  prims |-> <<"register", "set_lvb">>, failed |-> w.failed,
                  lvb_calls |-> <<w.held>>]
            ELSE IF ~prim.acquire \/ sl.owner # NoOwner
            THEN [dl |-> dl1, sanlock |-> w.sanlock,
                  exc |-> RaisedFor("AcquireLockFailure"),
                  prims |-> <<"register", "set_lvb", "acquire">>,
                  failed |-> "acquire", lvb_calls |-> <<w.held>>]
            ELSE [dl |-> dl1, sanlock |-> [w.sanlock EXCEPT !.owner = {who}],
                  exc |-> None, prims |-> <<"register", "set_lvb", "acquire">>,
                  failed |-> None, lvb_calls |-> <<w.held>>]

DiskLeaseAcquireNoLvb(dl, who, sl, prim) ==
    IF ~prim.register
    THEN [dl |-> dl, sanlock |-> sl, exc |-> RaisedFor("AcquireLockFailure"),
          prims |-> <<"register">>, failed |-> "register", lvb_calls |-> << >>]
    ELSE LET dl1 == [dl EXCEPT !.sanlock_fd = "fd"]
         IN IF ~prim.acquire \/ sl.owner # NoOwner
            THEN [dl |-> dl1, sanlock |-> sl,
                  exc |-> RaisedFor("AcquireLockFailure"),
                  prims |-> <<"register", "acquire">>, failed |-> "acquire",
                  lvb_calls |-> << >>]
            ELSE [dl |-> dl1, sanlock |-> [sl EXCEPT !.owner = {who}], exc |-> None,
                  prims |-> <<"register", "acquire">>, failed |-> None,
                  lvb_calls |-> << >>]

\* DiskLease.acquire: register, acquire with lvb=True, then set_lvb of the
\* instance's generation.  Returns the instance, the primitive's state, the
\* exception raised (None when it returns), the calls of the primitive it
\* made, in order, the one that failed, and for each set_lvb call whether the
\* caller owned the lease when it made it.
DiskLeaseAcquire(dl, who, sl, prim) ==
    IF ~prim.register
    THEN [dl |-> dl, sanlock |-> sl, exc |-> RaisedFor("AcquireLockFailure"),
          prims |-> <<"register">>, failed |-> "register", lvb_calls |-> << >>]
    ELSE LET dl1 == [dl EXCEPT !.sanlock_fd = "fd"]
         IN IF ~prim.acquire \/ sl.owner # NoOwner
            THEN [dl |-> dl1, sanlock |-> sl,
                  exc |-> RaisedFor("AcquireLockFailure"),
                  prims |-> <<"register", "acquire">>, failed |-> "acquire",
                  lvb_calls |-> << >>]
            ELSE LET sl1 == [sl EXCEPT !.owner = {who}]
                     w == SetLvb(sl1, who, JsonDumps(dl1.generation), prim.set_lvb)
                 IN [dl |-> dl1, sanlock |-> w.sanlock, exc |-> w.exc,
                     prims |-> <<"register", "acquire", "set_lvb">>,
                     failed |-> w.failed, lvb_calls |-> <<w.held>>]

\* DiskLease.release
DiskLeaseRelease(dl, who, sl, ok) ==
    IF ok /\ sl.owner = {who}
    THEN [dl |-> dl, sanlock |-> [sl EXCEPT !.owner = NoOwner], exc |-> None,
          prims |-> <<"release">>, failed |-> None]
    ELSE [dl |-> dl, sanlock |-> sl, exc |-> RaisedFor("ReleaseLockFailure"),
          prims |-> <<"release">>, failed |-> "release"]

\* DiskLease.update_generation(value).  The log call evaluates
\* self._generation['gen'] + str(value) first: str + str the first time, int +
\* str (a TypeError) once the generation has become an int.
DiskLeaseUpdateGeneration(dl, who, sl, value, ok) ==
    IF dl.generation.t # "str"
    THEN [dl |-> dl, sanlock |-> sl, exc |-> "TypeError", prims |-> << >>,
          failed |-> None, lvb_calls |-> << >>]
    ELSE LET dl1 == [dl EXCEPT !.generation = IntGen(PyInt(dl.generation) + value)]
             w == SetLvb(sl, who, JsonDumps(dl1.generation), ok)
         IN [dl |-> dl1, sanlock |-> w.sanlock, exc |-> w.exc,
             prims |-> <<"set_lvb">>, failed |-> w.failed,
             lvb_calls |-> <<w.held>>]

\* DiskLease.get_lvb: json.loads of the buffer; the value read, or the
\* exception raised
DiskLeaseGetLvb(sl, who, ok) ==
    IF ok /\ sl.owner = {who}
    THEN [value |-> JsonLoads(sl.lvb), exc |-> None, prims |-> <<"get_lvb">>,
          failed |-> None]
    ELSE [value |-> StrGen(0), exc |-> RaisedFor("ReleaseLockFailure"),
          prims |-> <<"get_lvb">>, failed |-> "get_lvb"]

\* No DiskLease object: volume_operation() has not built one
NoLease == [generation |-> StrGen(0), sanlock_fd |-> "no object"]

\* --------------------------------------------------------------- endpoints
Formats == {"raw", "qcow2"}

\* Parameters of an internal-volume ('div') source and destination.
DivSources ==
    [endpoint_type : {"div"}, img_id : {"imgX"}, format : Formats,
     invalid_vm_conf : BOOLEAN, prepared : BOOLEAN, volume_leases : {FALSE}]
DivDestinations ==
    [endpoint_type : {"div"}, img_id : {"imgY"}, format : Formats,
     invalid_vm_conf : {FALSE}, prepared : BOOLEAN, volume_leases : BOOLEAN]
\* Parameters of an endpoint with another tag: only the tag matters.
Tagged(tag) ==
    [endpoint_type |-> tag, img_id |-> "none", format |-> "raw",
     invalid_vm_conf |-> FALSE, prepared |-> FALSE, volume_leases |-> FALSE]

\* What a caller may pass to Job(job_id, host_id, source, destination,
\* copy_bitmaps).
JobParams ==
    [source : DivSources \cup {Tagged("external"), Tagged("volume"), Tagged("unknown")},
     destination : DivDestinations \cup {Tagged("external"), Tagged("volume"),
                                         Tagged("unknown")},
     copy_bitmaps : BOOLEAN]

CreateEndpointVolume(params) ==
    IF params.endpoint_type = "volume" THEN "CopyDataDivEndpoint"
    ELSE IF params.endpoint_type = "external" THEN "CopyDataExternalEndpoint"
    ELSE "ValueError"

\* _create_endpoint: the tags it accepts; any other raises ValueError.
CreateEndpoint(params) ==
    IF params.endpoint_type = "div" THEN "CopyDataDivEndpoint"
    ELSE IF params.endpoint_type = "external" THEN "CopyDataExternalEndpoint"
    ELSE "ValueError"

IsExternal(ep) == CreateEndpoint(ep) = "CopyDataExternalEndpoint"

EndpointLocksExclusive(ep, writable) ==
    IF IsExternal(ep) THEN << >>
    ELSE << [ns |-> "storage", key |-> "sd", mode |-> "shared"],
            [ns |-> "image", key |-> ep.img_id, mode |-> "exclusive"] >>
         \o (IF writable /\ ep.volume_leases
             THEN << [ns |-> "volume_lease", key |-> ep.img_id, mode |-> "exclusive"] >>
             ELSE << >>)

\* CopyDataDivEndpoint.locks / CopyDataExternalEndpoint.locks
EndpointLocks(ep, writable) ==
    IF IsExternal(ep) THEN << >>
    ELSE << [ns |-> "storage", key |-> "sd", mode |-> "shared"],
            [ns |-> "image", key |-> ep.img_id,
             mode |-> IF writable THEN "exclusive" ELSE "shared"] >>
         \o (IF writable /\ ep.volume_leases
             THEN << [ns |-> "volume_lease", key |-> ep.img_id, mode |-> "exclusive"] >>
             ELSE << >>)

\* self._source.locks + self._dest.locks
JobLocks(c) == EndpointLocks(c.source, FALSE) \o EndpointLocks(c.destination, TRUE)

\* is_invalid_vm_conf_disk()
IsInvalidVmConfDisk(ep) == IF IsExternal(ep) THEN FALSE ELSE ep.invalid_vm_conf

\* qemu_format
QemuFormat(ep) == IF IsExternal(ep) THEN "raw" ELSE ep.format

\* Job._run: the formats handed to validation and to convert
EffectiveFormats(c) ==
    IF IsInvalidVmConfDisk(c.source)
    THEN [src |-> "raw", dst |-> "raw"]
    ELSE [src |-> QemuFormat(c.source), dst |-> QemuFormat(c.destination)]

ValidateCopyBitmapsSourceOnly(copy_bitmaps, src_format, dst_format) ==
    IF copy_bitmaps /\ "raw" = src_format
    THEN "UnsupportedOperation"
    ELSE None

\* Job._validate_copy_bitmaps: the exception it raises, None when it returns
ValidateCopyBitmaps(copy_bitmaps, src_format, dst_format) ==
    IF copy_bitmaps /\ "raw" \in {src_format, dst_format}
    THEN "UnsupportedOperation"
    ELSE None

AbortedAtCheckpointAborting(st) == st = "aborting"

\* Job._run: `if self._status == jobs.STATUS.ABORTED: return`
AbortedAtCheckpoint(st) == st = "aborted"

\* The operation's own progress reading, in each of its states
OperationProgress(op) == "progress of " \o op

\* The states of an operation that has been created and has not ended
ActiveOperation == {"created", "aborting_created", "running", "aborting"}

JobProgressWhileActive(op) ==
    IF op \in ActiveOperation THEN OperationProgress(op) ELSE None

\* Job.progress: getattr(self._operation, 'progress', None)
JobProgress(op) == IF op = None THEN None ELSE OperationProgress(op)

GenerationBumpTwo == 1 + 1

\* The delta volume_operation() passes to update_generation
GenerationBump == 1

\* ------------------------------------------------------------------- state
VARIABLES
    cfg,          \* cfg[j]: the parameters job j was constructed with
    pc,           \* pc[j]: where job j's worker is in run()/_run()
    status,       \* status[j]: Job._status
    operation,    \* operation[j]: Job._operation (None, or the operation's state)
    exc,          \* exc[j]: the exception propagating out of _run, or None
    held,         \* held[j]: the locks guarded.context holds, in acquisition order
    prepared,     \* prepared[j]: endpoints volume.prepare'd and not torn down
    lease,        \* lease[j]: the DiskLease of volume_operation(), or NoLease
    events,       \* events[j]: what job j acquired, released and ran, in order
    abortPc,      \* abortPc[j]: where the thread calling abort() is
    abortAt,      \* abortAt[j]: whether abort() came before or after line 80 ran
    sanlock,      \* the primitive: owner and value buffer of the disk lease
    client,       \* client[k]: a DiskLease instance driven directly
    monitor       \* a host's lease record, its age, and the last status reported

jobVars == <<cfg, pc, status, operation, exc, held, prepared, lease, events,
             abortPc, abortAt>>
vars == <<cfg, pc, status, operation, exc, held, prepared, lease, events,
          abortPc, abortAt, sanlock, client, monitor>>

NoCfg == [source |-> Tagged("none"), destination |-> Tagged("none"),
          copy_bitmaps |-> FALSE]

\* calls, sum: the update_generation calls made on the instance and the sum
\* of their deltas; fault: a call of the primitive failed; seen: the last
\* result of get_lvb (the fresh instance's own generation before any); method,
\* prims, failed, exc: the last method called on the instance, the calls of the
\* primitive it made, the one that failed and the exception it raised.
ClientInit == [dl |-> DiskLeaseInit, calls |-> 0, sum |-> 0, exc |-> None,
               fault |-> FALSE, seen |-> StrGen(0), method |-> None,
               prims |-> << >>, failed |-> None]

\* record: the host id has a lease record; elapsed: seconds since its last
\* renewal; failed: the last status query's call of the primitive failed;
\* status: what that query reported (None: none since the last change).
MonitorInit == [record |-> FALSE, elapsed |-> 0, failed |-> FALSE, status |-> None]

JobsInit ==
    /\ cfg = [j \in Jobs |-> NoCfg]
    /\ pc = [j \in Jobs |-> "idle"]
    /\ status = [j \in Jobs |-> None]
    /\ operation = [j \in Jobs |-> None]
    /\ exc = [j \in Jobs |-> None]
    /\ held = [j \in Jobs |-> << >>]
    /\ prepared = [j \in Jobs |-> {}]
    /\ lease = [j \in Jobs |-> NoLease]
    /\ events = [j \in Jobs |-> << >>]
    /\ abortPc = [j \in Jobs |-> "idle"]
    /\ abortAt = [j \in Jobs |-> None]

Init ==
    /\ JobsInit
    /\ sanlock = [owner |-> NoOwner, lvb |-> ""]
    /\ client = [k \in Clients |-> ClientInit]
    /\ monitor = MonitorInit

Ev(op, res) == [op |-> op, res |-> res]
LockRes(i) == "lock" \o PyStr(i)
\* The set_lvb calls a method of the lease made, as events
LvbEvents(calls) ==
    [n \in 1..Len(calls) |-> Ev("set_lvb", IF calls[n] THEN "held" ELSE "not held")]

Ended(j) == pc[j] \in {"terminated", "rejected", "gone"}

\* What Job.__init__ has done when it returns or raises: the source is created
\* first, then the destination; CopyDataExternalEndpoint.__init__ appropriates
\* its device (line 231).
ConstructionEvents(c) ==
    IF CreateEndpoint(c.source) = "ValueError" THEN << >>
    ELSE (IF IsExternal(c.source) THEN <<Ev("appropriate", "src")>> ELSE << >>)
         \o (IF CreateEndpoint(c.destination) # "ValueError" /\ IsExternal(c.destination)
             THEN <<Ev("appropriate", "dst")>> ELSE << >>)

\* Job.__init__: both endpoints are created; an unknown tag raises ValueError
\* and no job exists.  Jobs are constructed one after the other, each once the
\* jobs before it are gone.
Start(j, c) ==
    /\ pc[j] = "idle"
    /\ \A i \in Jobs : i < j => pc[i] = "gone"
    /\ LET ok == /\ CreateEndpoint(c.source) # "ValueError"
                 /\ CreateEndpoint(c.destination) # "ValueError"
       IN /\ cfg' = [cfg EXCEPT ![j] = c]
          /\ pc' = [pc EXCEPT ![j] = IF ok THEN "run" ELSE "rejected"]
          /\ status' = [status EXCEPT ![j] = IF ok THEN "pending" ELSE None]
          /\ exc' = [exc EXCEPT ![j] = IF ok THEN None ELSE "ValueError"]
          /\ events' = [events EXCEPT ![j] = ConstructionEvents(c)]
    /\ UNCHANGED <<operation, held, prepared, lease, abortPc, abortAt, sanlock,
                   client, monitor>>

\* The job has ended and its caller lets go of it: the job object, its
\* endpoints and its operation are no more.  What the job left in the
\* primitive stays.
Forget(j) ==
    /\ pc[j] \in {"terminated", "rejected"}
    /\ cfg' = [cfg EXCEPT ![j] = NoCfg]
    /\ pc' = [pc EXCEPT ![j] = "gone"]
    /\ status' = [status EXCEPT ![j] = None]
    /\ exc' = [exc EXCEPT ![j] = None]
    /\ operation' = [operation EXCEPT ![j] = None]
    /\ held' = [held EXCEPT ![j] = << >>]
    /\ prepared' = [prepared EXCEPT ![j] = {}]
    /\ lease' = [lease EXCEPT ![j] = NoLease]
    /\ events' = [events EXCEPT ![j] = << >>]
    /\ abortPc' = [abortPc EXCEPT ![j] = "idle"]
    /\ abortAt' = [abortAt EXCEPT ![j] = None]
    /\ UNCHANGED <<sanlock, client, monitor>>

\* Where _run goes once guarded.context has entered
AfterLocks == "prep_src"

\* base.Job.run: the job is running and _run starts entering guarded.context
Run(j) ==
    /\ pc[j] = "run"
    /\ status' = [status EXCEPT ![j] = "running"]
    /\ pc' = [pc EXCEPT ![j] = IF JobLocks(cfg[j]) = << >> THEN AfterLocks ELSE "locks"]
    /\ UNCHANGED <<cfg, operation, exc, held, prepared, lease, events, abortPc,
                   abortAt, sanlock, client, monitor>>

\* Resource manager: a lock is granted when no other job holds the same
\* (namespace, key) in a conflicting mode.
Compatible(j, lock) ==
    \A i \in Jobs \ {j} : \A n \in 1..Len(held[i]) :
        (held[i][n].ns = lock.ns /\ held[i][n].key = lock.key)
            => (held[i][n].mode = "shared" /\ lock.mode = "shared")

\* guarded.context.__enter__: the next lock of the list is acquired; a failed
\* acquire releases the locks taken so far and raises.
AcquireLock(j) ==
    /\ pc[j] = "locks"
    /\ LET locks == JobLocks(cfg[j])
           n == Len(held[j]) + 1
       IN \/ /\ Compatible(j, locks[n])
             /\ held' = [held EXCEPT ![j] = Append(@, locks[n])]
             /\ events' = [events EXCEPT ![j] = Append(@, Ev("acquire", LockRes(n)))]
             /\ pc' = [pc EXCEPT ![j] = IF n = Len(locks) THEN AfterLocks ELSE "locks"]
             /\ exc' = exc
          \/ /\ exc' = [exc EXCEPT ![j] = "LockFailure"]
             /\ pc' = [pc EXCEPT ![j] = "release_locks"]
             /\ UNCHANGED <<held, events>>
    /\ UNCHANGED <<cfg, status, operation, prepared, lease, abortPc, abortAt,
                   sanlock, client, monitor>>

\* prepare(): the branch that calls volume.prepare and, in its finally,
\* volume.teardown
CallsVolumePrepare(ep) == ~IsExternal(ep) /\ ~ep.prepared

\* self._source / self._dest
Endpoint(c, which) == IF which = "src" THEN c.source ELSE c.destination

PrepareNoUnwind(j, which, ep, next, unwind) ==
    /\ \/ /\ prepared' = [prepared EXCEPT ![j] =
                            IF CallsVolumePrepare(ep) THEN @ \cup {which} ELSE @]
          /\ events' = [events EXCEPT ![j] =
                          @ \o (IF CallsVolumePrepare(ep)
                                THEN <<Ev("volume.prepare", which)>> ELSE << >>)
                            \o <<Ev("acquire", which)>>]
          /\ pc' = [pc EXCEPT ![j] = next]
          /\ exc' = exc
       \/ /\ IsExternal(ep) \/ ~ep.prepared
          /\ exc' = [exc EXCEPT ![j] = "PrepareFailure"]
          /\ pc' = [pc EXCEPT ![j] = "release_locks"]
          /\ UNCHANGED <<prepared, events>>
    /\ UNCHANGED <<cfg, status, operation, held, lease, abortPc, abortAt,
                   sanlock, client, monitor>>

\* An endpoint's prepare() up to its yield.  A div endpoint that is not
\* already prepared calls volume.prepare; an external one appropriates the
\* device.  Either call may raise.
Prepare(j, which, ep, next, unwind) ==
    /\ \/ /\ prepared' = [prepared EXCEPT ![j] =
                            IF CallsVolumePrepare(ep) THEN @ \cup {which} ELSE @]
          /\ events' = [events EXCEPT ![j] =
                          @ \o (IF CallsVolumePrepare(ep)
                                THEN <<Ev("volume.prepare", which)>> ELSE << >>)
                            \o <<Ev("acquire", which)>>]
          /\ pc' = [pc EXCEPT ![j] = next]
          /\ exc' = exc
       \/ /\ IsExternal(ep) \/ ~ep.prepared
          /\ exc' = [exc EXCEPT ![j] = "PrepareFailure"]
          /\ pc' = [pc EXCEPT ![j] = unwind]
          /\ UNCHANGED <<prepared, events>>
    /\ UNCHANGED <<cfg, status, operation, held, lease, abortPc, abortAt,
                   sanlock, client, monitor>>

PrepareSource(j) ==
    /\ pc[j] = "prep_src"
    /\ Prepare(j, "src", cfg[j].source, "prep_dst", "release_locks")

PrepareDestination(j) ==
    /\ pc[j] = "prep_dst"
    /\ Prepare(j, "dst", cfg[j].destination, "checkpoint", "td_src")

\* Line 80: the pre-copy checkpoint.  `return` leaves the with blocks with no
\* exception.
Checkpoint(j) ==
    /\ pc[j] = "checkpoint"
    /\ pc' = [pc EXCEPT ![j] = IF AbortedAtCheckpoint(status[j]) THEN "td_dst"
                               ELSE "validate"]
    /\ UNCHANGED <<cfg, status, operation, exc, held, prepared, lease, events,
                   abortPc, abortAt, sanlock, client, monitor>>

ValidateWithoutStopping(j) ==
    /\ pc[j] = "validate"
    /\ LET f == EffectiveFormats(cfg[j])
           e == ValidateCopyBitmaps(cfg[j].copy_bitmaps, f.src, f.dst)
       IN /\ exc' = [exc EXCEPT ![j] = e]
          /\ pc' = [pc EXCEPT ![j] = "volop"]
          /\ events' = [events EXCEPT ![j] = Append(@, Ev("validate", IF e = None THEN "pass" ELSE "reject"))]
    /\ UNCHANGED <<cfg, status, operation, held, prepared, lease, abortPc,
                   abortAt, sanlock, client, monitor>>

\* Lines 85-91: the effective formats, then _validate_copy_bitmaps
Validate(j) ==
    /\ pc[j] = "validate"
    /\ LET f == EffectiveFormats(cfg[j])
           e == ValidateCopyBitmaps(cfg[j].copy_bitmaps, f.src, f.dst)
       IN /\ exc' = [exc EXCEPT ![j] = e]
          /\ pc' = [pc EXCEPT ![j] = IF e = None THEN "volop" ELSE "td_dst"]
          /\ events' = [events EXCEPT ![j] = Append(@, Ev("validate", IF e = None THEN "pass" ELSE "reject"))]
    /\ UNCHANGED <<cfg, status, operation, held, prepared, lease, abortPc,
                   abortAt, sanlock, client, monitor>>

\* CopyDataDivEndpoint.volume_operation -> volume.operation(generation): the
\* entry checks the volume's generation and may raise.
VolumeOperationDiv(j) ==
    /\ pc[j] = "volop"
    /\ ~IsExternal(cfg[j].destination)
    /\ \/ /\ events' = [events EXCEPT ![j] = Append(@, Ev("acquire", "volop"))]
          /\ pc' = [pc EXCEPT ![j] = "convert"]
          /\ exc' = exc
       \/ /\ exc' = [exc EXCEPT ![j] = "GenerationMismatch"]
          /\ pc' = [pc EXCEPT ![j] = "td_dst"]
          /\ events' = events
    /\ UNCHANGED <<cfg, status, operation, held, prepared, lease, abortPc,
                   abortAt, sanlock, client, monitor>>

\* CopyDataExternalEndpoint.volume_operation, lines 283-287: the lease's
\* place is looked up under a shared lock on the storage domain, which is
\* released again, and the DiskLease is built.
LeaseInfo(j) ==
    /\ pc[j] = "volop"
    /\ IsExternal(cfg[j].destination)
    /\ \/ /\ Compatible(j, [ns |-> "storage", key |-> "sd", mode |-> "shared"])
          /\ lease' = [lease EXCEPT ![j] = DiskLeaseInit]
          /\ pc' = [pc EXCEPT ![j] = "lease_acquire"]
          /\ exc' = exc
       \/ /\ exc' = [exc EXCEPT ![j] = "LockFailure"]
          /\ pc' = [pc EXCEPT ![j] = "td_dst"]
          /\ lease' = lease
    /\ UNCHANGED <<cfg, status, operation, held, prepared, events, abortPc,
                   abortAt, sanlock, client, monitor>>

LeaseAcquireUnchecked(j) ==
    /\ pc[j] = "lease_acquire"
    /\ \E prim \in PrimOutcomes :
          LET r == DiskLeaseAcquire(lease[j], j, sanlock, prim)
          IN /\ lease' = [lease EXCEPT ![j] = r.dl]
             /\ sanlock' = r.sanlock
             /\ exc' = exc
             /\ pc' = [pc EXCEPT ![j] = "convert"]
             /\ events' = [events EXCEPT ![j] =
                             @ \o LvbEvents(r.lvb_calls) \o <<Ev("acquire", "lease")>>]
    /\ UNCHANGED <<cfg, status, operation, held, prepared, abortPc, abortAt,
                   client, monitor>>

\* Line 288: lease.acquire(), then the yield when it returned
LeaseAcquire(j) ==
    /\ pc[j] = "lease_acquire"
    /\ \E prim \in PrimOutcomes :
          LET r == DiskLeaseAcquire(lease[j], j, sanlock, prim)
          IN /\ lease' = [lease EXCEPT ![j] = r.dl]
             /\ sanlock' = r.sanlock
             /\ exc' = [exc EXCEPT ![j] = r.exc]
             /\ pc' = [pc EXCEPT ![j] = IF r.exc = None THEN "convert" ELSE "td_dst"]
             /\ events' = [events EXCEPT ![j] =
                             @ \o LvbEvents(r.lvb_calls)
                               \o (IF r.exc = None THEN <<Ev("acquire", "lease")>>
                                   ELSE << >>)]
    /\ UNCHANGED <<cfg, status, operation, held, prepared, abortPc, abortAt,
                   client, monitor>>

\* Line 94: self._operation = qemuimg.convert(...)
Convert(j) ==
    /\ pc[j] = "convert"
    /\ operation' = [operation EXCEPT ![j] = "created"]
    /\ events' = [events EXCEPT ![j] = Append(@, Ev("run", "convert"))]
    /\ pc' = [pc EXCEPT ![j] = "op_run"]
    /\ UNCHANGED <<cfg, status, exc, held, prepared, lease, abortPc, abortAt,
                   sanlock, client, monitor>>

\* What volume_operation() does when the block it wraps raises: the external
\* endpoint's generator has no try around its yield, so the exception leaves
\* it at once; volume.operation likewise lets it pass.
BodyRaised(j, e) ==
    /\ exc' = [exc EXCEPT ![j] = e]
    /\ pc' = [pc EXCEPT ![j] = "td_dst"]
    /\ events' = [events EXCEPT ![j] =
                    IF IsExternal(cfg[j].destination) THEN @
                    ELSE Append(@, Ev("release", "volop"))]

\* Line 112: self._operation.run() starts the copy; an operation aborted
\* before it ran raises instead.
OperationRun(j) ==
    /\ pc[j] = "op_run"
    /\ IF operation[j] = "created"
       THEN /\ operation' = [operation EXCEPT ![j] = "running"]
            /\ pc' = [pc EXCEPT ![j] = "op_wait"]
            /\ events' = [events EXCEPT ![j] = Append(@, Ev("run", "copy_start"))]
            /\ exc' = exc
       ELSE /\ operation' = [operation EXCEPT ![j] = "aborted"]
            /\ BodyRaised(j, "ActionStopped")
    /\ UNCHANGED <<cfg, status, held, prepared, lease, abortPc, abortAt,
                   sanlock, client, monitor>>

\* run() returns when the copy completed, and raises when the copy failed or
\* was aborted.
OperationEnd(j) ==
    /\ pc[j] = "op_wait"
    /\ \/ /\ operation[j] = "running"
          /\ operation' = [operation EXCEPT ![j] = "done"]
          /\ events' = [events EXCEPT ![j] = Append(@, Ev("run", "copy_done"))]
          /\ pc' = [pc EXCEPT ![j] = "volop_exit"]
          /\ exc' = exc
       \/ /\ operation[j] = "running"
          /\ operation' = [operation EXCEPT ![j] = "failed"]
          /\ BodyRaised(j, "CopyError")
       \/ /\ operation[j] = "aborting"
          /\ operation' = [operation EXCEPT ![j] = "aborted"]
          /\ BodyRaised(j, "ActionStopped")
    /\ UNCHANGED <<cfg, status, held, prepared, lease, abortPc, abortAt,
                   sanlock, client, monitor>>

\* volume.operation's exit after the block returned
VolumeOperationDivExit(j) ==
    /\ pc[j] = "volop_exit"
    /\ ~IsExternal(cfg[j].destination)
    /\ events' = [events EXCEPT ![j] = Append(@, Ev("release", "volop"))]
    /\ pc' = [pc EXCEPT ![j] = "td_dst"]
    /\ UNCHANGED <<cfg, status, operation, exc, held, prepared, lease, abortPc,
                   abortAt, sanlock, client, monitor>>

\* Line 293: lease.update_generation(1)
LeaseUpdateGeneration(j) ==
    /\ pc[j] = "volop_exit"
    /\ IsExternal(cfg[j].destination)
    /\ \E ok \in BOOLEAN :
          LET r == DiskLeaseUpdateGeneration(lease[j], j, sanlock, GenerationBump, ok)
          IN /\ lease' = [lease EXCEPT ![j] = r.dl]
             /\ sanlock' = r.sanlock
             /\ exc' = [exc EXCEPT ![j] = r.exc]
             /\ pc' = [pc EXCEPT ![j] = IF r.exc = None THEN "lease_release" ELSE "td_dst"]
             /\ events' = [events EXCEPT ![j] =
                             @ \o LvbEvents(r.lvb_calls)
                               \o (IF r.exc = None
                                   THEN <<Ev("run", "update_generation")>>
                                   ELSE << >>)]
    /\ UNCHANGED <<cfg, status, operation, held, prepared, abortPc, abortAt,
                   client, monitor>>

\* Line 296: lease.release()
LeaseRelease(j) ==
    /\ pc[j] = "lease_release"
    /\ \E ok \in BOOLEAN :
          LET r == DiskLeaseRelease(lease[j], j, sanlock, ok)
          IN /\ lease' = [lease EXCEPT ![j] = r.dl]
             /\ sanlock' = r.sanlock
             /\ exc' = [exc EXCEPT ![j] = r.exc]
             /\ events' = [events EXCEPT ![j] =
                             IF r.exc = None THEN Append(@, Ev("release", "lease"))
                             ELSE @]
    /\ pc' = [pc EXCEPT ![j] = "td_dst"]
    /\ UNCHANGED <<cfg, status, operation, held, prepared, abortPc, abortAt,
                   client, monitor>>

TeardownUnlessRaised(j, which, next) ==
    LET calls == CallsVolumePrepare(Endpoint(cfg[j], which)) /\ exc[j] = None
    IN /\ prepared' = [prepared EXCEPT ![j] = IF calls THEN @ \ {which} ELSE @]
       /\ events' = [events EXCEPT ![j] =
                       @ \o (IF calls THEN <<Ev("volume.teardown", which)>> ELSE << >>)
                         \o (IF exc[j] = None THEN <<Ev("release", which)>> ELSE << >>)]
       /\ pc' = [pc EXCEPT ![j] = next]
       /\ UNCHANGED <<cfg, status, operation, exc, held, lease, abortPc, abortAt,
                      sanlock, client, monitor>>

TeardownAlways(j, which, next) ==
    LET calls == ~IsExternal(Endpoint(cfg[j], which))
    IN /\ prepared' = [prepared EXCEPT ![j] = IF calls THEN @ \ {which} ELSE @]
       /\ events' = [events EXCEPT ![j] =
                       @ \o (IF calls THEN <<Ev("volume.teardown", which)>> ELSE << >>)
                         \o <<Ev("release", which)>>]
       /\ pc' = [pc EXCEPT ![j] = next]
       /\ UNCHANGED <<cfg, status, operation, exc, held, lease, abortPc, abortAt,
                      sanlock, client, monitor>>

\* The exit of an endpoint's prepare(): volume.teardown when prepare() called
\* volume.prepare, nothing when the caller had prepared the volume, a log line
\* for an external endpoint.
Teardown(j, which, next) ==
    LET calls == CallsVolumePrepare(Endpoint(cfg[j], which))
    IN /\ prepared' = [prepared EXCEPT ![j] = IF calls THEN @ \ {which} ELSE @]
       /\ events' = [events EXCEPT ![j] =
                       @ \o (IF calls THEN <<Ev("volume.teardown", which)>> ELSE << >>)
                         \o <<Ev("release", which)>>]
       /\ pc' = [pc EXCEPT ![j] = next]
       /\ UNCHANGED <<cfg, status, operation, exc, held, lease, abortPc, abortAt,
                      sanlock, client, monitor>>

TeardownDestination(j) ==
    /\ pc[j] = "td_dst"
    /\ Teardown(j, "dst", "td_src")

TeardownSource(j) ==
    /\ pc[j] = "td_src"
    /\ Teardown(j, "src", "release_locks")

\* guarded.context's release: the locks held, last acquired first
ReleaseLock(j) ==
    /\ pc[j] = "release_locks"
    /\ Len(held[j]) > 0
    /\ held' = [held EXCEPT ![j] = SubSeq(@, 1, Len(@) - 1)]
    /\ events' = [events EXCEPT ![j] = Append(@, Ev("release", LockRes(Len(held[j]))))]
    /\ UNCHANGED <<cfg, pc, status, operation, exc, prepared, lease, abortPc,
                   abortAt, sanlock, client, monitor>>

\* base.Job.run after _run: done when it returned, failed when it raised; a
\* job that was aborted stays aborted.
Finish(j) ==
    /\ pc[j] = "release_locks"
    /\ Len(held[j]) = 0
    /\ status' = [status EXCEPT ![j] =
                    IF @ = "aborted" THEN "aborted"
                    ELSE IF exc[j] = None THEN "done" ELSE "failed"]
    /\ pc' = [pc EXCEPT ![j] = "terminated"]
    /\ UNCHANGED <<cfg, operation, exc, held, prepared, lease, events, abortPc,
                   abortAt, sanlock, client, monitor>>

\* The places of _run before line 80 has read the status
BeforeCheckpoint == {"locks", "prep_src", "prep_dst", "checkpoint"}

\* base.Job.abort, on the caller's thread: the status is set first ...
AbortMark(j) ==
    /\ status[j] = "running"
    /\ abortPc[j] = "idle"
    /\ status' = [status EXCEPT ![j] = "aborted"]
    /\ abortPc' = [abortPc EXCEPT ![j] = "forward"]
    /\ abortAt' = [abortAt EXCEPT ![j] =
                     IF pc[j] \in BeforeCheckpoint THEN "before_checkpoint"
                     ELSE "after_checkpoint"]
    /\ UNCHANGED <<cfg, pc, operation, exc, held, prepared, lease, events,
                   sanlock, client, monitor>>

\* operation.abort(): an operation not yet run will not run, a running one is
\* stopped, an ended one is left as it is
OperationAbort(op) ==
    CASE op = "created" -> "aborting_created"
      [] op = "running" -> "aborting"
      [] OTHER -> op

\* ... then Job._abort: `if self._operation: self._operation.abort()`
AbortForward(j) ==
    /\ abortPc[j] = "forward"
    /\ operation' = [operation EXCEPT ![j] = IF @ = None THEN @ ELSE OperationAbort(@)]
    /\ abortPc' = [abortPc EXCEPT ![j] = "done"]
    /\ UNCHANGED <<cfg, pc, status, exc, held, prepared, lease, events,
                   abortAt, sanlock, client, monitor>>

JobStep(j) ==
    \/ Forget(j)
    \/ Run(j)
    \/ AcquireLock(j)
    \/ PrepareSource(j)
    \/ PrepareDestination(j)
    \/ Checkpoint(j)
    \/ Validate(j)
    \/ VolumeOperationDiv(j)
    \/ LeaseInfo(j)
    \/ LeaseAcquire(j)
    \/ Convert(j)
    \/ OperationRun(j)
    \/ OperationEnd(j)
    \/ VolumeOperationDivExit(j)
    \/ LeaseUpdateGeneration(j)
    \/ LeaseRelease(j)
    \/ TeardownDestination(j)
    \/ TeardownSource(j)
    \/ ReleaseLock(j)
    \/ Finish(j)
    \/ AbortMark(j)
    \/ AbortForward(j)

Next ==
    \/ \E j \in Jobs : \E c \in JobParams : Start(j, c)
    \/ \E j \in Jobs : JobStep(j)

Spec == Init /\ [][Next]_vars

\* ------------------------------------------------- two jobs at the same time
\* Two jobs run on worker threads of their own, with no abort() call.
Pair == {1, 2}
Peer(j) == CHOOSE i \in Pair : i # j
PairImage(j) == IF j = 1 THEN "imgX" ELSE "imgY"

DivEndpoint(img) ==
    [endpoint_type |-> "div", img_id |-> img, format |-> "qcow2",
     invalid_vm_conf |-> FALSE, prepared |-> FALSE, volume_leases |-> FALSE]

\* What the two callers pass: crossed internal volumes (job 1 copies image X
\* to image Y, job 2 image Y to image X, one storage domain), or image X to
\* the external device whose disk lease both name.
CrossedParams(j) ==
    [source |-> DivEndpoint(PairImage(j)), destination |-> DivEndpoint(PairImage(Peer(j))),
     copy_bitmaps |-> FALSE]
SameLeaseParams ==
    [source |-> DivEndpoint("imgX"), destination |-> Tagged("external"),
     copy_bitmaps |-> FALSE]
PairParams(j) == {CrossedParams(j), SameLeaseParams}

\* Job.__init__ and the scheduling of the job, whatever the other job does
StartPair(j, c) ==
    /\ pc[j] = "idle"
    /\ cfg' = [cfg EXCEPT ![j] = c]
    /\ pc' = [pc EXCEPT ![j] = "run"]
    /\ status' = [status EXCEPT ![j] = "pending"]
    /\ events' = [events EXCEPT ![j] = ConstructionEvents(c)]
    /\ UNCHANGED <<exc, operation, held, prepared, lease, abortPc, abortAt, sanlock,
                   client, monitor>>

PairStep(j) ==
    \/ Run(j)
    \/ AcquireLock(j)
    \/ PrepareSource(j)
    \/ PrepareDestination(j)
    \/ Checkpoint(j)
    \/ Validate(j)
    \/ VolumeOperationDiv(j)
    \/ LeaseInfo(j)
    \/ LeaseAcquire(j)
    \/ Convert(j)
    \/ OperationRun(j)
    \/ OperationEnd(j)
    \/ VolumeOperationDivExit(j)
    \/ LeaseUpdateGeneration(j)
    \/ LeaseRelease(j)
    \/ TeardownDestination(j)
    \/ TeardownSource(j)
    \/ ReleaseLock(j)
    \/ Finish(j)

NextPair ==
    \/ \E j \in Pair : \E c \in PairParams(j) : StartPair(j, c)
    \/ \E j \in Pair : PairStep(j)

SpecPair == Init /\ [][NextPair]_vars

\* ------------------------------------------------- DiskLease used directly
\* A caller holding a DiskLease instance of its own on the same lease calls
\* acquire, update_generation (while it holds the lease), get_lvb and release.
Holds(k) == sanlock.owner = {k}

ClientAcquire(k) ==
    /\ ~Holds(k)
    /\ \E prim \in PrimOutcomes :
          LET r == DiskLeaseAcquire(client[k].dl, k, sanlock, prim)
          IN /\ sanlock' = r.sanlock
             /\ client' = [client EXCEPT ![k].dl = r.dl, ![k].exc = r.exc,
                              ![k].fault = @ \/ r.failed # None,
                              ![k].method = "acquire", ![k].prims = r.prims,
                              ![k].failed = r.failed]
    /\ UNCHANGED <<jobVars, monitor>>

ClientUpdateGeneration(k, d) ==
    /\ Holds(k)
    /\ client[k].calls < MaxCalls
    /\ \E ok \in BOOLEAN :
          LET r == DiskLeaseUpdateGeneration(client[k].dl, k, sanlock, d, ok)
          IN /\ sanlock' = r.sanlock
             /\ client' = [client EXCEPT ![k].dl = r.dl, ![k].exc = r.exc,
                              ![k].calls = @ + 1, ![k].sum = @ + d,
                              ![k].fault = @ \/ ~ok,
                              ![k].method = "update_generation",
                              ![k].prims = r.prims, ![k].failed = r.failed]
    /\ UNCHANGED <<jobVars, monitor>>

ClientGetLvb(k) ==
    /\ Holds(k)
    /\ sanlock.lvb # ""
    /\ \E ok \in BOOLEAN :
          LET r == DiskLeaseGetLvb(sanlock, k, ok)
          IN client' = [client EXCEPT ![k].seen = IF r.exc = None THEN r.value ELSE @,
                           ![k].exc = r.exc, ![k].fault = @ \/ r.failed # None,
                           ![k].method = "get_lvb", ![k].prims = r.prims,
                           ![k].failed = r.failed]
    /\ UNCHANGED <<sanlock, jobVars, monitor>>

ClientRelease(k) ==
    /\ Holds(k)
    /\ \E ok \in BOOLEAN :
          LET r == DiskLeaseRelease(client[k].dl, k, sanlock, ok)
          IN /\ sanlock' = r.sanlock
             /\ client' = [client EXCEPT ![k].dl = r.dl, ![k].exc = r.exc,
                              ![k].fault = @ \/ r.failed # None,
                              ![k].method = "release", ![k].prims = r.prims,
                              ![k].failed = r.failed]
    /\ UNCHANGED <<jobVars, monitor>>

NextLease ==
    \/ \E k \in Clients : ClientAcquire(k)
    \/ \E k \in Clients : \E d \in Deltas : ClientUpdateGeneration(k, d)
    \/ \E k \in Clients : ClientGetLvb(k)
    \/ \E k \in Clients : ClientRelease(k)

SpecLease == Init /\ [][NextLease]_vars

\* ------------------------------------------------------- host lease status
\* The host writes or renews its lease record.
Renew ==
    /\ monitor' = [MonitorInit EXCEPT !.record = TRUE]
    /\ UNCHANGED <<jobVars, sanlock, client>>

\* The host id's lease record is removed.
Remove ==
    /\ monitor.record
    /\ monitor' = MonitorInit
    /\ UNCHANGED <<jobVars, sanlock, client>>

\* A second passes without a renewal.
Tick ==
    /\ monitor.record
    /\ monitor.elapsed < MaxElapsed
    /\ monitor' = [monitor EXCEPT !.elapsed = @ + 1, !.failed = FALSE, !.status = None]
    /\ UNCHANGED <<jobVars, sanlock, client>>

\* The host's status is asked for; the primitive's call may fail.
GetHostStatus ==
    /\ \E ok \in BOOLEAN :
          monitor' = [monitor EXCEPT !.failed = ~ok,
                         !.status = HostStatus(monitor.record, ~ok, monitor.elapsed)]
    /\ UNCHANGED <<jobVars, sanlock, client>>

NextStatus == Renew \/ Remove \/ Tick \/ GetHostStatus

SpecStatus == Init /\ [][NextStatus]_vars

\* ------------------------------------------------------------------ claims
Has(j, e) == \E n \in 1..Len(events[j]) : events[j][n] = e
Resources(t) == [n \in 1..Len(t) |-> t[n].res]
Acquired(j) == Resources(SelectSeq(events[j], LAMBDA e : e.op = "acquire"))
Released(j) == Resources(SelectSeq(events[j], LAMBDA e : e.op = "release"))
Reverse(t) == [n \in 1..Len(t) |-> t[Len(t) + 1 - n]]
IsPrefix(t, u) == Len(t) <= Len(u) /\ SubSeq(u, 1, Len(t)) = t
Alive(j) == pc[j] \notin {"idle", "rejected", "gone"}
ExternalDestination(j) == Alive(j) /\ IsExternal(cfg[j].destination)

\* C1: a job with an external destination whose volume_operation() acquired
\* the lease and handed control to the copy does not hold the lease once the
\* job has terminated.
C1_LeaseReleasedAtEnd ==
    \A j \in Jobs :
        (pc[j] = "terminated" /\ ExternalDestination(j) /\ Has(j, Ev("run", "convert")))
            => sanlock.owner # {j}

\* C2: no step lowers the generation the lease's value buffer holds.
C2_GenerationMonotonic ==
    [][LvbGeneration(sanlock'.lvb) >= LvbGeneration(sanlock.lvb)]_vars

\* C3: while a DiskLease is held and the primitive has not failed, every
\* update_generation call made on it has completed and the value buffer holds
\* 0 plus the sum of the deltas.
C3_GenerationIsSumOfDeltas ==
    \A k \in Clients :
        (Holds(k) /\ client[k].calls >= 1 /\ ~client[k].fault)
            => /\ client[k].exc = None
               /\ LvbGeneration(sanlock.lvb) = client[k].sum

\* The lease and copy events of a job with an external destination, in the
\* order volume_operation() and _run produce them.
LeaseProtocol ==
    << Ev("acquire", "lease"), Ev("run", "convert"), Ev("run", "copy_start"),
       Ev("run", "copy_done"), Ev("run", "update_generation"), Ev("release", "lease") >>
ProtocolEvents(j) ==
    SelectSeq(events[j], LAMBDA e : \E n \in 1..Len(LeaseProtocol) : LeaseProtocol[n] = e)
\* C4: with an external destination the lease and copy events of a job happen
\* in the order acquire, convert, copy starts, copy completes,
\* update_generation, release; a job that ends done went through all of them
\* and left the generation at 0 + 1 with the lease released.
C4_ExternalCopyOrder ==
    \A j \in Jobs :
        ExternalDestination(j) =>
            /\ IsPrefix(ProtocolEvents(j), LeaseProtocol)
            /\ status[j] = "done" =>
                  /\ ProtocolEvents(j) = LeaseProtocol
                  /\ lease[j].generation = IntGen(1)
                  /\ LvbGeneration(sanlock.lvb) = 1
                  /\ sanlock.owner = NoOwner
C4_Witness ==
    \E j \in Jobs : ExternalDestination(j) /\ status[j] = "done"

\* C5: when a job with an external destination has terminated, its lease's
\* generation was advanced exactly if volume_operation() reached its yield.
C5_BumpIffYielded ==
    \A j \in Jobs :
        (pc[j] = "terminated" /\ ExternalDestination(j))
            => (Has(j, Ev("run", "update_generation")) <=> Has(j, Ev("run", "convert")))

\* C6: a job marked aborted before line 80 read the status never creates the
\* copy operation nor enters the destination's volume_operation(), and when
\* _run has returned it holds no lock and no prepared endpoint, each released
\* once in reverse order.
C6_AbortBeforeCheckpoint ==
    \A j \in Jobs :
        abortAt[j] = "before_checkpoint" =>
            /\ operation[j] = None
            /\ lease[j] = NoLease
            /\ ~Has(j, Ev("run", "convert"))
            /\ ~Has(j, Ev("acquire", "volop"))
            /\ ~Has(j, Ev("acquire", "lease"))
            /\ pc[j] \notin {"validate", "volop", "lease_acquire", "convert", "op_run",
                             "op_wait", "volop_exit", "lease_release"}
            /\ pc[j] = "terminated" =>
                  /\ held[j] = << >>
                  /\ prepared[j] = {}
                  /\ Released(j) = Reverse(Acquired(j))
C6_Witness ==
    \E j \in Jobs :
        /\ abortAt[j] = "before_checkpoint"
        /\ pc[j] = "terminated"
        /\ exc[j] = None
        /\ Len(Acquired(j)) = 7

\* C7: once abort() has returned, the copy is not running uncancelled.
C7_AbortNeverLost ==
    \A j \in Jobs : abortPc[j] = "done" => operation[j] # "running"

\* copy_bitmaps with a raw effective format: the source is an invalid-vm-conf
\* disk (both formats count as raw) or an endpoint's qemu_format is raw.
RawCase(c) ==
    /\ c.copy_bitmaps
    /\ \/ c.source.endpoint_type = "div" /\ c.source.invalid_vm_conf
       \/ QemuFormat(c.source) = "raw"
       \/ QemuFormat(c.destination) = "raw"
Validated(j) == Has(j, Ev("validate", "pass")) \/ Has(j, Ev("validate", "reject"))
\* C8: a job whose validation ran fails with UnsupportedOperation exactly when
\* copy_bitmaps is set and the source is an invalid-vm-conf disk or one of the
\* endpoints' qemu_format is raw; otherwise it goes on into the destination's
\* volume_operation() and the copy is started unless that entry fails.
C8_BitmapValidation ==
    \A j \in Jobs :
        /\ exc[j] = "UnsupportedOperation" => Validated(j)
        /\ Validated(j) => (exc[j] = "UnsupportedOperation" <=> RawCase(cfg[j]))
        /\ (Validated(j) /\ ~RawCase(cfg[j])) =>
              \/ pc[j] \in {"volop", "lease_acquire", "convert"}
              \/ Has(j, Ev("run", "convert"))
              \/ exc[j] \in {"GenerationMismatch", "LockFailure", "AttributeError"}
C8_Witness ==
    \E j \in Jobs :
        /\ exc[j] = "UnsupportedOperation"
        /\ cfg[j].source.invalid_vm_conf
        /\ cfg[j].source.format = "qcow2"
        /\ cfg[j].destination.endpoint_type = "div"
        /\ cfg[j].destination.format = "qcow2"

\* C9 as stated: a job rejected with UnsupportedOperation has acquired no
\* lock, prepared no endpoint and acquired no disk lease.
C9_RejectedBeforeAnyLock ==
    \A j \in Jobs :
        exc[j] = "UnsupportedOperation" => (Acquired(j) = << >> /\ lease[j] = NoLease)

\* C9 amended: a job rejected with UnsupportedOperation is rejected before
\* the destination's volume_operation() is entered (no DiskLease is built or
\* acquired, no copy operation is created), and the locks and preparations it
\* took before are all released, in reverse order, when _run has returned.
C9_RejectedBeforeVolumeOperation ==
    \A j \in Jobs :
        exc[j] = "UnsupportedOperation" =>
            /\ lease[j] = NoLease
            /\ sanlock.owner # {j}
            /\ operation[j] = None
            /\ ~Has(j, Ev("acquire", "volop"))
            /\ ~Has(j, Ev("acquire", "lease"))
            /\ Acquired(j) = Resources([n \in 1..Len(JobLocks(cfg[j])) |->
                                           Ev("acquire", LockRes(n))]) \o <<"src", "dst">>
            /\ pc[j] = "terminated" =>
                  /\ held[j] = << >>
                  /\ prepared[j] = {}
                  /\ Released(j) = Reverse(Acquired(j))
C9_Witness ==
    \E j \in Jobs :
        /\ exc[j] = "UnsupportedOperation"
        /\ pc[j] = "terminated"
        /\ Len(JobLocks(cfg[j])) = 5
        /\ ~cfg[j].source.prepared
        /\ ~cfg[j].destination.prepared

\* C10: when a job has terminated, what it released is exactly what it
\* acquired (locks, preparations, the volume operation or disk lease), in the
\* reverse order.
C10_ReleasedInReverse ==
    \A j \in Jobs : pc[j] = "terminated" => Released(j) = Reverse(Acquired(j))

\* The levels of the global lock order: storage-domain locks, then image and
\* volume locks, then the cluster-wide disk lease.
HoldsImageLevel(j) ==
    \E n \in 1..Len(held[j]) : held[j][n].ns \in {"image", "volume_lease"}
RequestsStorageLevel(j) ==
    \/ pc[j] = "locks" /\ JobLocks(cfg[j])[Len(held[j]) + 1].ns = "storage"
    \/ pc[j] = "volop" /\ IsExternal(cfg[j].destination)

\* C11: a job about to request a storage-domain lock (the next lock of
\* source.locks + destination.locks, or the one volume_operation() of an
\* external destination takes) holds no image-level lock and no disk lease,
\* and a job about to acquire the disk lease holds all its in-process locks.
C11_GlobalLockOrder ==
    \A j \in Jobs :
        /\ RequestsStorageLevel(j) => (~HoldsImageLevel(j) /\ sanlock.owner # {j})
        /\ pc[j] = "lease_acquire" => held[j] = JobLocks(cfg[j])

\* A job between two internal-volume endpoints on a domain without per-volume
\* leases, and the places of _run where guarded.context is entered.
DivToDiv(j) ==
    /\ Alive(j)
    /\ cfg[j].source.endpoint_type = "div"
    /\ cfg[j].destination.endpoint_type = "div"
    /\ ~cfg[j].destination.volume_leases
InsideGuardedContext(j) ==
    pc[j] \in {"prep_src", "prep_dst", "checkpoint", "validate", "volop", "convert",
               "op_run", "op_wait", "volop_exit", "td_dst", "td_src"}
DomainLock == [ns |-> "storage", key |-> "sd", mode |-> "shared"]
ImageLock(img, mode) == [ns |-> "image", key |-> img, mode |-> mode]
LockEvents(j, op) == SelectSeq(events[j], LAMBDA e : e.op = op /\ e.res \in {LockRes(n) : n \in 1..4})
DivToDivEnds(j) ==
    /\ lease[j] = NoLease
    /\ sanlock.owner # {j}
    /\ ~Has(j, Ev("acquire", "lease"))
    /\ (pc[j] = "terminated" /\ exc[j] = None /\ abortAt[j] = None) => status[j] = "done"
    /\ status[j] = "done" =>
          /\ Has(j, Ev("run", "copy_done"))
          /\ held[j] = << >>
          /\ prepared[j] = {}
          /\ Len(LockEvents(j, "acquire")) = 4
          /\ Len(LockEvents(j, "release")) = 4

\* C12 as stated: inside guarded.context such a job holds, for the source and
\* for the destination, a shared lock on the storage domain and an exclusive
\* lock on the image; it acquires no disk lease, and when it ends done the copy
\* has run and none of its locks is held.
C12_ExclusiveImageLocks ==
    \A j \in Jobs :
        DivToDiv(j) =>
            /\ InsideGuardedContext(j) =>
                  held[j] = << DomainLock, ImageLock("imgX", "exclusive"),
                               DomainLock, ImageLock("imgY", "exclusive") >>
            /\ DivToDivEnds(j)

\* C12 amended: the image lock of the source is shared, that of the
\* destination exclusive; the rest as stated.
C12_DivToDivLocks ==
    \A j \in Jobs :
        DivToDiv(j) =>
            /\ InsideGuardedContext(j) =>
                  held[j] = << DomainLock, ImageLock("imgX", "shared"),
                               DomainLock, ImageLock("imgY", "exclusive") >>
            /\ DivToDivEnds(j)
C12_Witness ==
    \E j \in Jobs : DivToDiv(j) /\ status[j] = "done" /\ Has(j, Ev("run", "copy_done"))

\* C13: a method of DiskLease in which a call of the primitive failed raises
\* AcquireLockFailure when the call was register or acquire and
\* ReleaseLockFailure when it was release, set_lvb or get_lvb; the failure is
\* never swallowed and no other kind of exception results from it.
C13_PrimitiveFailureKinds ==
    \A k \in Clients :
        /\ client[k].failed \in {"register", "acquire"}
              => client[k].exc = "AcquireLockFailure"
        /\ client[k].failed \in {"release", "set_lvb", "get_lvb"}
              => client[k].exc = "ReleaseLockFailure"

AcquireCalls == <<"register", "acquire", "set_lvb">>
\* C14: acquire() calls register, then acquire, then set_lvb, each at most
\* once and stopping at the first that fails; when it returns the instance is
\* registered, holds the lease and the value buffer holds its generation,
\* {"gen": "0"} for a fresh instance; set_lvb is called only once ownership
\* has been obtained; release() calls release once and, when it returns, the
\* instance no longer holds the lease; an unregistered instance never holds it.
C14_AcquireStateMachine ==
    \A k \in Clients :
        LET c == client[k]
        IN /\ Holds(k) => c.dl.sanlock_fd = "fd"
           /\ c.method = "acquire" =>
                 /\ IsPrefix(c.prims, AcquireCalls)
                 /\ c.failed # None => c.prims[Len(c.prims)] = c.failed
                 /\ c.failed = None => c.prims = AcquireCalls
                 /\ Len(c.prims) = 3 => Holds(k)
                 /\ c.exc = None =>
                       /\ c.prims = AcquireCalls
                       /\ Holds(k)
                       /\ sanlock.lvb = JsonDumps(c.dl.generation)
                       /\ c.calls = 0 => sanlock.lvb = "{\"gen\": \"0\"}"
           /\ c.method = "release" =>
                 /\ c.prims = <<"release">>
                 /\ c.exc = None => ~Holds(k)
C14_Witness ==
    \E k \in Clients :
        /\ client[k].method = "acquire"
        /\ client[k].exc = None
        /\ client[k].calls = 0
        /\ Holds(k)
        /\ sanlock.lvb = "{\"gen\": \"0\"}"

\* A lock of the guarded scope, an endpoint's prepare, the storage lock of
\* volume_operation() or lease.acquire() failed: the exception is in flight and
\* volume_operation() never reached its yield.
AcquisitionFailed(j) ==
    \/ exc[j] \in {"LockFailure", "PrepareFailure"}
    \/ exc[j] = "AttributeError" /\ ~Has(j, Ev("acquire", "lease"))

\* C15: a job one of whose acquisitions failed never creates nor runs the copy
\* operation, and when run() returns to the caller it holds no lock and no
\* prepared endpoint: each lock and preparation it had taken was released
\* once, in reverse order.
C15_AcquisitionFailureUnwinds ==
    \A j \in Jobs :
        AcquisitionFailed(j) =>
            /\ operation[j] = None
            /\ ~Has(j, Ev("run", "convert"))
            /\ ~Has(j, Ev("run", "copy_start"))
            /\ pc[j] \notin {"convert", "op_run", "op_wait", "volop_exit", "lease_release"}
            /\ pc[j] = "terminated" =>
                  /\ status[j] \in {"failed", "aborted"}
                  /\ held[j] = << >>
                  /\ prepared[j] = {}
                  /\ Released(j) = Reverse(Acquired(j))
C15_Witness ==
    \E j \in Jobs :
        /\ pc[j] = "terminated"
        /\ exc[j] = "AttributeError"
        /\ lease[j] # NoLease
        /\ ~Has(j, Ev("acquire", "lease"))
        /\ Acquired(j) = <<"lock1", "lock2", "src", "dst">>
        /\ Released(j) = <<"dst", "src", "lock2", "lock1">>

\* C16 as stated: Job.progress is None unless the copy operation is active,
\* hence None again once the operation has completed, failed or been aborted.
C16_ProgressOnlyWhileActive ==
    \A j \in Jobs :
        JobProgress(operation[j]) # None => operation[j] \in ActiveOperation

\* C16 amended: Job.progress is None exactly until line 94 has created the
\* copy operation; from then on it is the operation's own reading, also after
\* the operation has completed, failed or been aborted and after the job has
\* terminated.
C16_ProgressOnceCreated ==
    \A j \in Jobs :
        /\ JobProgress(operation[j]) = None <=> ~Has(j, Ev("run", "convert"))
        /\ Has(j, Ev("run", "convert")) =>
              JobProgress(operation[j]) = OperationProgress(operation[j])
C16_Witness ==
    \E j \in Jobs :
        /\ pc[j] = "terminated"
        /\ operation[j] = "done"
        /\ JobProgress(operation[j]) = OperationProgress("done")

Count(j, e) == Len(SelectSeq(events[j], LAMBDA x : x = e))
ScopeLeft(j, which) == Has(j, Ev("release", which)) \/ pc[j] = "terminated"

\* C17: for each endpoint of a job, volume.prepare and volume.teardown are
\* never called when the endpoint is external or was prepared by the caller;
\* otherwise volume.prepare is called once on entering prepare(), the volume
\* stays prepared while the scope is open, and volume.teardown has been called
\* exactly once when the scope has been left, by return or by exception,
\* and not at all if volume.prepare was not called or raised.
C17_TeardownOnEveryExit ==
    \A j \in Jobs : \A which \in {"src", "dst"} :
        LET ep == Endpoint(cfg[j], which)
            np == Count(j, Ev("volume.prepare", which))
            nt == Count(j, Ev("volume.teardown", which))
        IN Alive(j) =>
             /\ nt <= np /\ np <= 1
             /\ ~CallsVolumePrepare(ep) => (np = 0 /\ nt = 0)
             /\ (CallsVolumePrepare(ep) /\ Has(j, Ev("acquire", which))) => np = 1
             /\ which \in prepared[j] <=> (np = 1 /\ nt = 0)
             /\ ScopeLeft(j, which) => nt = np
C17_Witness ==
    \E j \in Jobs :
        /\ pc[j] = "terminated"
        /\ exc[j] = "PrepareFailure"
        /\ cfg[j].destination.endpoint_type = "div"
        /\ Count(j, Ev("volume.prepare", "src")) = 1
        /\ Count(j, Ev("volume.teardown", "src")) = 1
        /\ Count(j, Ev("volume.prepare", "dst")) = 0
        /\ Count(j, Ev("volume.teardown", "dst")) = 0

ValidTags == {"div", "external"}
Constructed(j) == pc[j] \notin {"idle", "gone"}
NothingAcquired(j) ==
    /\ exc[j] = "ValueError"
    /\ status[j] = None
    /\ held[j] = << >>
    /\ prepared[j] = {}
    /\ lease[j] = NoLease
    /\ sanlock.owner # {j}
    /\ Acquired(j) = << >>

\* C18 as stated: the tag "volume" yields an internal-volume endpoint and
\* "external" an external one, so a job with these tags is constructed; with
\* any other tag construction fails and nothing at all has been acquired.
C18_VolumeTagDispatch ==
    \A j \in Jobs :
        Constructed(j) =>
            LET st == cfg[j].source.endpoint_type
                dt == cfg[j].destination.endpoint_type
            IN /\ pc[j] = "rejected" <=> ~({st, dt} \subseteq {"volume", "external"})
               /\ pc[j] = "rejected" => (NothingAcquired(j) /\ events[j] = << >>)

\* C18 amended: the tag 'div' yields an internal-volume endpoint and
\* 'external' an external one; with any other tag Job.__init__ raises
\* ValueError and no job exists: no lock, preparation or lease is acquired;
\* only the device of an external source, constructed before the
\* destination's tag is looked at, has been appropriated.
C18_EndpointDispatch ==
    \A j \in Jobs :
        Constructed(j) =>
            LET st == cfg[j].source.endpoint_type
                dt == cfg[j].destination.endpoint_type
            IN /\ pc[j] = "rejected" <=> ~({st, dt} \subseteq ValidTags)
               /\ st = "div" <=> CreateEndpoint(cfg[j].source) = "CopyDataDivEndpoint"
               /\ st = "external" <=> CreateEndpoint(cfg[j].source) = "CopyDataExternalEndpoint"
               /\ dt = "div" <=> CreateEndpoint(cfg[j].destination) = "CopyDataDivEndpoint"
               /\ dt = "external" <=> CreateEndpoint(cfg[j].destination) = "CopyDataExternalEndpoint"
               /\ pc[j] = "rejected" =>
                     /\ NothingAcquired(j)
                     /\ events[j] = IF st = "external" THEN <<Ev("appropriate", "src")>>
                                    ELSE << >>
C18_Witness ==
    \E j \in Jobs :
        /\ pc[j] = "rejected"
        /\ cfg[j].source.endpoint_type = "external"
        /\ cfg[j].destination.endpoint_type = "volume"
        /\ events[j] = <<Ev("appropriate", "src")>>

Positions(j, e) == {n \in 1..Len(events[j]) : events[j][n] = e}
LvbWrites(j) == {n \in 1..Len(events[j]) : events[j][n].op = "set_lvb"}

\* C20: every set_lvb call a job makes (the one in acquire() and the one in
\* update_generation()) is made while the job owns the lease: after the
\* primitive granted it and before the job releases it; the first comes
\* before acquire() returns, the second after the copy completed; and the
\* value buffer is never written while the lease is not held by its writer.
C20_LvbWrittenWhileHeld ==
    \A j \in Jobs :
        /\ Cardinality(LvbWrites(j)) <= 2
        /\ \A n \in LvbWrites(j) :
              /\ events[j][n].res = "held"
              /\ \A m \in Positions(j, Ev("release", "lease")) : n < m
              /\ \A m \in Positions(j, Ev("acquire", "lease")) :
                    n < m \/ \E d \in Positions(j, Ev("run", "copy_done")) : d < n
        /\ (Has(j, Ev("acquire", "lease")) \/ Has(j, Ev("run", "update_generation")))
              => LvbWrites(j) # {}
        /\ (LvbWrites(j) # {} /\ ~Has(j, Ev("release", "lease"))) => sanlock.owner = {j}
C20_Witness ==
    \E j \in Jobs :
        /\ Count(j, Ev("set_lvb", "held")) = 2
        /\ Has(j, Ev("release", "lease"))
        /\ sanlock.owner = NoOwner
        /\ LvbGeneration(sanlock.lvb) = 1

\* qemuimg.convert has been called and the operation has not ended
CopyUnderWay(j) == pc[j] \in {"op_run", "op_wait"}
ScopeOpen(j, which) == Has(j, Ev("acquire", which)) /\ ~Has(j, Ev("release", which))

\* C23: while a job's copy is under way (convert has been called, run() has
\* not returned) the job holds every lock of source.locks + destination.locks,
\* both endpoints' prepare() scopes are open and each endpoint that needed
\* volume.prepare is prepared, the destination's volume_operation() scope is
\* open (an external destination: its lease is acquired and owned by the job),
\* the checkpoint did not see the job aborted, the bitmap validation passed
\* and raised nothing; and a job calls convert at most once.
C23_CopyFullyProtected ==
    \A j \in Jobs :
        /\ Count(j, Ev("run", "convert")) <= 1
        /\ CopyUnderWay(j) =>
              /\ Count(j, Ev("run", "convert")) = 1
              /\ held[j] = JobLocks(cfg[j])
              /\ ScopeOpen(j, "src") /\ ScopeOpen(j, "dst")
              /\ prepared[j] = {w \in {"src", "dst"} : CallsVolumePrepare(Endpoint(cfg[j], w))}
              /\ IF IsExternal(cfg[j].destination)
                 THEN /\ ScopeOpen(j, "lease")
                      /\ lease[j].sanlock_fd = "fd"
                      /\ sanlock.owner = {j}
                 ELSE ScopeOpen(j, "volop")
              /\ abortAt[j] # "before_checkpoint"
              /\ Has(j, Ev("validate", "pass")) /\ ~Has(j, Ev("validate", "reject"))
              /\ exc[j] = None
C23_Witness ==
    \E j \in Jobs :
        /\ pc[j] = "op_wait"
        /\ operation[j] = "running"
        /\ IsExternal(cfg[j].destination)
        /\ ~IsExternal(cfg[j].source)
        /\ Len(held[j]) = 2
        /\ sanlock.owner = {j}

\* set_lvb raised inside acquire() once the primitive had granted the lease, or
\* inside update_generation() after the copy completed
SetLvbFailedInAcquire(j) ==
    /\ Count(j, Ev("set_lvb", "held")) = 1
    /\ ~Has(j, Ev("acquire", "lease"))
SetLvbFailedInUpdate(j) ==
    /\ Count(j, Ev("set_lvb", "held")) = 2
    /\ Has(j, Ev("run", "copy_done"))
    /\ ~Has(j, Ev("run", "update_generation"))

\* C24: a job in which set_lvb failed, in acquire() after the lease was
\* obtained or in update_generation() after a successful copy, does not own
\* the disk lease once the error has left volume_operation(): not while the
\* prepare() scopes and the locks unwind, and not when it has terminated.
C24_LvbFailureReleasesLease ==
    \A j \in Jobs :
        ((SetLvbFailedInAcquire(j) \/ SetLvbFailedInUpdate(j))
            /\ pc[j] \in {"td_dst", "td_src", "release_locks", "terminated"})
            => sanlock.owner # {j}

\* Between the yield of the external endpoint's volume_operation() and its exit
InCopyPhase(j) ==
    /\ ExternalDestination(j)
    /\ pc[j] \in {"convert", "op_run", "op_wait", "volop_exit", "lease_release"}
EnteredCopyPhase(j) == ExternalDestination(j) /\ Has(j, Ev("acquire", "lease"))

\* C21: of two jobs whose external destinations name the same disk lease, at
\* most one is inside the copy phase at any time; the one inside owns the
\* lease; and while one is inside, the other either has never entered or has
\* released the lease since it entered.
C21_SameLeaseSerialized ==
    \A j \in Jobs :
        InCopyPhase(j) =>
            /\ sanlock.owner = {j}
            /\ \A i \in Jobs \ {j} :
                  /\ ~InCopyPhase(i)
                  /\ EnteredCopyPhase(i) => Has(i, Ev("release", "lease"))
C21_Witness ==
    \E j \in Pair :
        /\ InCopyPhase(j)
        /\ EnteredCopyPhase(Peer(j))
        /\ Has(Peer(j), Ev("release", "lease"))
        /\ pc[Peer(j)] \in {"td_dst", "td_src", "release_locks"}

\* Job i is at guarded.context's next request and job j holds a lock that
\* conflicts with it
WaitsFor(i, j) ==
    /\ pc[i] = "locks"
    /\ LET lock == JobLocks(cfg[i])[Len(held[i]) + 1]
       IN \E n \in 1..Len(held[j]) :
             /\ held[j][n].ns = lock.ns
             /\ held[j][n].key = lock.key
             /\ ~(held[j][n].mode = "shared" /\ lock.mode = "shared")
CrossedJobs(i, j) ==
    /\ i # j
    /\ Alive(i) /\ Alive(j)
    /\ DivToDiv(i) /\ DivToDiv(j)
    /\ cfg[i].source.img_id = cfg[j].destination.img_id
    /\ cfg[j].source.img_id = cfg[i].destination.img_id

\* C22: two jobs with crossed endpoints, their locks requested in the order
\* of source.locks + destination.locks, are never in a state in which each
\* holds a lock the other is waiting for.
C22_NoCircularWait ==
    \A i, j \in Jobs :
        CrossedJobs(i, j) => ~(WaitsFor(i, j) /\ WaitsFor(j, i))

====
